---- MODULE Spec2Model ----
(***************************************************************************)
(* frames.py: periodic capture of one frame from a video stream into a     *)
(* timestamped JPEG file.  The script is one sequential thread of control; *)
(* pc is the statement about to run.  Blocking native calls (cap.read,     *)
(* cv2.imwrite, time.sleep) have a second position "*_in" while the call   *)
(* is in progress.  The one asynchronous input is SIGINT (Ctrl+C), which   *)
(* the interpreter turns into KeyboardInterrupt in the main thread once    *)
(* control is back in the interpreter (or at once inside time.sleep).      *)
(***************************************************************************)
EXTENDS Integers, Sequences, FiniteSets, TLC

VARIABLES
    pc,          \* statement about to run, "done" once the process has ended
    cap,         \* the VideoCapture object: "unset", "open", "closed", "released"
    dirExists,   \* whether captured_images exists on disk
    files,       \* captured_images: path -> [frame, complete]
    out,         \* standard output, one record per print call
    now,         \* local wall clock, broken down as datetime.now() reports it
    lat,         \* seconds spent inside blocking calls since the last sleep
    ret, frame,  \* result of the last cap.read()
    filename, filepath,
    sigPending,  \* SIGINT received, KeyboardInterrupt not yet raised
    cancelled,   \* the user has pressed Ctrl+C in this run
    ended,       \* how the process ended: "no", "SystemExit", "KeyboardInterrupt", "end"
    exitStatus,  \* process exit status, -1 while running
    h            \* history of the run (observations only, never read by the code)

vars == <<pc, cap, dirExists, files, out, now, lat, ret, frame, filename,
          filepath, sigPending, cancelled, ended, exitStatus, h>>

\* ------------------------------------------------------------------ bounds
MaxReads == 3      \* cap.read() calls explored per run
MaxLatency == 1    \* seconds that blocking calls may take between two sleeps

\* --------------------------------------------------------------- constants
SleepSeconds == 60
save_dir == "captured_images"
OpenErrorMsg == "Error: Could not open video stream."
StartMsg == "Capturing images every 20 seconds... Press Ctrl+C to stop."
ReadFailMsg == "Failed to grab frame."
SavedMsg == "Saved: "
UserStopMsg == "\nStopped by user."
NoPath == <<>>

\* ------------------------------------------------------------- wall clock
IsLeap(y) == (y % 4 = 0 /\ y % 100 # 0) \/ y % 400 = 0

DaysInMonth(y, m) ==
    IF m = 2 THEN (IF IsLeap(y) THEN 29 ELSE 28)
    ELSE IF m \in {4, 6, 9, 11} THEN 30 ELSE 31

NextDay(t) ==
    IF t.d < DaysInMonth(t.y, t.mo) THEN [t EXCEPT !.d = t.d + 1]
    ELSE IF t.mo < 12 THEN [t EXCEPT !.mo = t.mo + 1, !.d = 1]
    ELSE [t EXCEPT !.y = t.y + 1, !.mo = 1, !.d = 1]

\* the wall clock n seconds after t (n below one day)
AddSeconds(t, n) ==
    LET tot == t.h * 3600 + t.mi * 60 + t.s + n
        sod == tot % 86400
        day == IF tot >= 86400 THEN NextDay(t) ELSE t
    IN  [day EXCEPT !.h = sod \div 3600, !.mi = (sod % 3600) \div 60, !.s = sod % 60]

\* launch times: before a leap day, before a new year, mid-morning
StartTimes ==
    { [y |-> 2024, mo |-> 2, d |-> 28, h |-> 23, mi |-> 58, s |-> 59],
      [y |-> 2025, mo |-> 12, d |-> 31, h |-> 23, mi |-> 59, s |-> 30],
      [y |-> 2026, mo |-> 6, d |-> 15, h |-> 9, mi |-> 0, s |-> 0] }

\* ------------------------------------------------------------- formatting
DigitChars == <<"0", "1", "2", "3", "4", "5", "6", "7", "8", "9">>

Pow10(k) == IF k = 0 THEN 1 ELSE IF k = 1 THEN 10 ELSE IF k = 2 THEN 100 ELSE 1000

\* n as w zero-padded decimal digits
Digits(n, w) == [i \in 1..w |-> DigitChars[((n \div Pow10(w - i)) % 10) + 1]]

\* strftime with the 12-hour field %I where the code has %H
StrftimeTwelveHour(t) ==
    Digits(t.y, 4) \o Digits(t.mo, 2) \o Digits(t.d, 2) \o <<"_">>
    \o Digits(IF t.h % 12 = 0 THEN 12 ELSE t.h % 12, 2)
    \o Digits(t.mi, 2) \o Digits(t.s, 2)

\* datetime.strftime("%Y%m%d_%H%M%S")
Strftime(t) ==
    Digits(t.y, 4) \o Digits(t.mo, 2) \o Digits(t.d, 2) \o <<"_">>
    \o Digits(t.h, 2) \o Digits(t.mi, 2) \o Digits(t.s, 2)

\* strftime(...) + ".jpg"
FileName(t) == Strftime(t) \o <<".jpg">>

\* os.path.join(dir, name)
PathJoin(dir, name) == <<dir, "/">> \o name

\* ------------------------------------------------------------ file system
\* a makedirs that leaves the disk as it was
MakedirsNoCreate(exists, exist_ok) == [exists |-> exists, raised |-> FALSE]

\* os.makedirs(path, exist_ok): the directory exists afterwards; raises
\* FileExistsError when it existed and exist_ok is false
Makedirs(exists, exist_ok) == [exists |-> TRUE, raised |-> exists /\ ~exist_ok]

\* cv2.imwrite opens the path for writing: an empty, incomplete file
OpenForWrite(fs, path, fr) ==
    [p \in DOMAIN fs \cup {path} |->
        IF p = path THEN [frame |-> fr, complete |-> FALSE] ELSE fs[p]]

\* a write that returns with the image still unflushed
FinishWriteUnflushed(fs, path) == fs

\* cv2.imwrite has encoded and flushed the image when it returns
FinishWrite(fs, path) ==
    [p \in DOMAIN fs |-> IF p = path THEN [fs[p] EXCEPT !.complete = TRUE] ELSE fs[p]]

NoFiles == [p \in {} |-> [frame |-> 0, complete |-> FALSE]]

\* --------------------------------------------------------------- statements
Msg(text, path) == [text |-> text, path |-> path]

\* a try block closed before the sleep
TryBlockWithoutSleep ==
    {"read", "read_in", "test_ret", "print_fail", "break", "filename", "join",
     "imwrite", "imwrite_in", "print_saved"}

\* positions inside the try block (lines 23-36)
TryBlock ==
    {"read", "read_in", "test_ret", "print_fail", "break", "filename", "join",
     "imwrite", "imwrite_in", "print_saved", "sleep", "sleep_in"}

\* positions at which the interpreter can raise KeyboardInterrupt: anywhere
\* but inside a native call that does not poll for signals
Interruptible(p) == p \notin {"read_in", "imwrite_in", "done"}

\* the interpreter runs the next statement only with no signal pending
Runs(p) == pc = p /\ ~sigPending

Init ==
    /\ pc = "open"
    /\ cap = "unset"
    /\ dirExists \in BOOLEAN
    /\ files = NoFiles
    /\ out = <<>>
    /\ now \in StartTimes
    /\ lat = 0
    /\ ret = FALSE
    /\ frame = 0
    /\ filename = <<>>
    /\ filepath = <<>>
    /\ sigPending = FALSE
    /\ cancelled = FALSE
    /\ ended = "no"
    /\ exitStatus = -1
    /\ h = [reads |-> 0, saveCalls |-> 0, saved |-> <<>>, releases |-> 0,
            failedIter |-> 0, tsRead |-> now, sigAt |-> "none",
            readsAtSig |-> 0, savesAtSig |-> 0, dirAtSave |-> TRUE,
            dirAtLaunch |-> dirExists, mkdirs |-> 0, raisedAt |-> "none"]

\* line 10: cap = cv2.VideoCapture(stream_url)
Open ==
    /\ Runs("open")
    /\ \E ok \in BOOLEAN : cap' = IF ok THEN "open" ELSE "closed"
    /\ pc' = "check"
    /\ UNCHANGED <<dirExists, files, out, now, lat, ret, frame, filename, filepath,
                   sigPending, cancelled, ended, exitStatus, h>>

\* line 12: if not cap.isOpened():
Check ==
    /\ Runs("check")
    /\ pc' = IF cap # "open" THEN "print_err" ELSE "makedirs"
    /\ UNCHANGED <<cap, dirExists, files, out, now, lat, ret, frame, filename,
                   filepath, sigPending, cancelled, ended, exitStatus, h>>

\* line 13: print("Error: Could not open video stream.")
PrintOpenError ==
    /\ Runs("print_err")
    /\ out' = Append(out, Msg(OpenErrorMsg, NoPath))
    /\ pc' = "exit"
    /\ UNCHANGED <<cap, dirExists, files, now, lat, ret, frame, filename, filepath,
                   sigPending, cancelled, ended, exitStatus, h>>

\* exit status of SystemExit(code): None is success
ExitCode(code) == IF code = "None" THEN 0 ELSE code

\* an exit() that is missing: control falls through to line 17
ExitFallsThrough ==
    /\ Runs("exit")
    /\ pc' = "makedirs"
    /\ UNCHANGED <<cap, dirExists, files, out, now, lat, ret, frame, filename,
                   filepath, sigPending, cancelled, ended, exitStatus, h>>

\* line 14: exit()
Exit ==
    /\ Runs("exit")
    /\ pc' = "done"
    /\ ended' = "SystemExit"
    /\ exitStatus' = ExitCode("None")
    /\ UNCHANGED <<cap, dirExists, files, out, now, lat, ret, frame, filename,
                   filepath, sigPending, cancelled, h>>

\* lines 17-18: os.makedirs(save_dir, exist_ok=True)
MakeSaveDir ==
    /\ Runs("makedirs")
    /\ LET r == Makedirs(dirExists, TRUE) IN
        /\ dirExists' = r.exists
        /\ IF r.raised
           THEN pc' = "done" /\ ended' = "FileExistsError" /\ exitStatus' = 1
           ELSE pc' = "print_start" /\ UNCHANGED <<ended, exitStatus>>
    /\ h' = [h EXCEPT !.mkdirs = 1]
    /\ UNCHANGED <<cap, files, out, now, lat, ret, frame, filename, filepath,
                   sigPending, cancelled>>

\* line 20: print("Capturing images every 20 seconds... Press Ctrl+C to stop.")
PrintStart ==
    /\ Runs("print_start")
    /\ out' = Append(out, Msg(StartMsg, NoPath))
    /\ pc' = "read"
    /\ UNCHANGED <<cap, dirExists, files, now, lat, ret, frame, filename, filepath,
                   sigPending, cancelled, ended, exitStatus, h>>

\* line 24: cap.read() is called
ReadCall ==
    /\ Runs("read")
    /\ h.reads < MaxReads
    /\ pc' = "read_in"
    /\ h' = [h EXCEPT !.reads = h.reads + 1]
    /\ UNCHANGED <<cap, dirExists, files, out, now, lat, ret, frame, filename,
                   filepath, sigPending, cancelled, ended, exitStatus>>

\* line 24: ret, frame = cap.read() returns, with a frame or without
ReadReturn ==
    /\ pc = "read_in"
    /\ \E ok \in BOOLEAN :
        /\ ret' = ok
        /\ frame' = IF ok THEN h.reads ELSE 0
        /\ h' = [h EXCEPT !.failedIter = IF ok THEN h.failedIter ELSE h.reads]
    /\ pc' = "test_ret"
    /\ UNCHANGED <<cap, dirExists, files, out, now, lat, filename, filepath,
                   sigPending, cancelled, ended, exitStatus>>

\* line 25: if not ret:
TestRet ==
    /\ Runs("test_ret")
    /\ pc' = IF ~ret THEN "print_fail" ELSE "filename"
    /\ UNCHANGED <<cap, dirExists, files, out, now, lat, ret, frame, filename,
                   filepath, sigPending, cancelled, ended, exitStatus, h>>

\* line 26: print("Failed to grab frame.")
PrintReadFailure ==
    /\ Runs("print_fail")
    /\ out' = Append(out, Msg(ReadFailMsg, NoPath))
    /\ pc' = "break"
    /\ UNCHANGED <<cap, dirExists, files, now, lat, ret, frame, filename, filepath,
                   sigPending, cancelled, ended, exitStatus, h>>

\* a read failure that is retried: continue where the code has break
BreakContinues ==
    /\ Runs("break")
    /\ pc' = "read"
    /\ UNCHANGED <<cap, dirExists, files, out, now, lat, ret, frame, filename,
                   filepath, sigPending, cancelled, ended, exitStatus, h>>

\* line 27: break
Break ==
    /\ Runs("break")
    /\ pc' = "release"
    /\ UNCHANGED <<cap, dirExists, files, out, now, lat, ret, frame, filename,
                   filepath, sigPending, cancelled, ended, exitStatus, h>>

\* line 30: filename = datetime.now().strftime("%Y%m%d_%H%M%S") + ".jpg"
MakeFilename ==
    /\ Runs("filename")
    /\ filename' = FileName(now)
    /\ h' = [h EXCEPT !.tsRead = now]
    /\ pc' = "join"
    /\ UNCHANGED <<cap, dirExists, files, out, now, lat, ret, frame, filepath,
                   sigPending, cancelled, ended, exitStatus>>

\* line 31: filepath = os.path.join(save_dir, filename)
MakeFilepath ==
    /\ Runs("join")
    /\ filepath' = PathJoin(save_dir, filename)
    /\ pc' = "imwrite"
    /\ UNCHANGED <<cap, dirExists, files, out, now, lat, ret, frame, filename,
                   sigPending, cancelled, ended, exitStatus, h>>

\* line 32: cv2.imwrite(filepath, frame) is called; without the directory
\* nothing is written
ImwriteCall ==
    /\ Runs("imwrite")
    /\ files' = IF dirExists THEN OpenForWrite(files, filepath, frame) ELSE files
    /\ h' = [h EXCEPT !.saveCalls = h.saveCalls + 1,
                      !.dirAtSave = h.dirAtSave /\ dirExists]
    /\ pc' = "imwrite_in"
    /\ UNCHANGED <<cap, dirExists, out, now, lat, ret, frame, filename, filepath,
                   sigPending, cancelled, ended, exitStatus>>

\* line 32: cv2.imwrite returns
ImwriteReturn ==
    /\ pc = "imwrite_in"
    /\ files' = FinishWrite(files, filepath)
    /\ h' = [h EXCEPT !.saved = IF filepath \in DOMAIN files
                                THEN Append(h.saved, [path |-> filepath, ts |-> h.tsRead,
                                                      frame |-> frame])
                                ELSE h.saved]
    /\ pc' = "print_saved"
    /\ UNCHANGED <<cap, dirExists, out, now, lat, ret, frame, filename, filepath,
                   sigPending, cancelled, ended, exitStatus>>

\* line 33: print(f"Saved: {filepath}")
PrintSaved ==
    /\ Runs("print_saved")
    /\ out' = Append(out, Msg(SavedMsg, filepath))
    /\ pc' = "sleep"
    /\ UNCHANGED <<cap, dirExists, files, now, lat, ret, frame, filename, filepath,
                   sigPending, cancelled, ended, exitStatus, h>>

\* line 36: time.sleep(60) is called
SleepCall ==
    /\ Runs("sleep")
    /\ pc' = "sleep_in"
    /\ UNCHANGED <<cap, dirExists, files, out, now, lat, ret, frame, filename,
                   filepath, sigPending, cancelled, ended, exitStatus, h>>

\* a sleep that returns at once
SleepReturnNoWait ==
    /\ Runs("sleep_in")
    /\ lat' = 0
    /\ pc' = "read"
    /\ UNCHANGED <<cap, dirExists, files, out, now, ret, frame, filename, filepath,
                   sigPending, cancelled, ended, exitStatus, h>>

\* line 36: time.sleep(60) returns after the interval; line 23: loop again
SleepReturn ==
    /\ Runs("sleep_in")
    /\ now' = AddSeconds(now, SleepSeconds)
    /\ lat' = 0
    /\ pc' = "read"
    /\ UNCHANGED <<cap, dirExists, files, out, ret, frame, filename, filepath,
                   sigPending, cancelled, ended, exitStatus, h>>

\* a second passes while a blocking call is in progress
Tick ==
    /\ pc \in {"read_in", "imwrite_in", "sleep_in"}
    /\ lat < MaxLatency
    /\ now' = AddSeconds(now, 1)
    /\ lat' = lat + 1
    /\ UNCHANGED <<pc, cap, dirExists, files, out, ret, frame, filename, filepath,
                   sigPending, cancelled, ended, exitStatus, h>>

\* the user presses Ctrl+C: SIGINT is delivered to the process
SigInt ==
    /\ pc # "done"
    /\ ~cancelled
    /\ cancelled' = TRUE
    /\ sigPending' = TRUE
    /\ h' = [h EXCEPT !.sigAt = pc, !.readsAtSig = h.reads,
                      !.savesAtSig = h.saveCalls]
    /\ UNCHANGED <<pc, cap, dirExists, files, out, now, lat, ret, frame, filename,
                   filepath, ended, exitStatus>>

\* the interpreter raises KeyboardInterrupt: inside the try block control
\* goes to the except clause (line 38), elsewhere the process dies of it
KeyboardInterrupt ==
    /\ sigPending
    /\ Interruptible(pc)
    /\ sigPending' = FALSE
    /\ h' = [h EXCEPT !.raisedAt = pc]
    /\ IF pc \in TryBlock
       THEN pc' = "handler" /\ UNCHANGED <<ended, exitStatus>>
       ELSE pc' = "done" /\ ended' = "KeyboardInterrupt" /\ exitStatus' = 130
    /\ UNCHANGED <<cap, dirExists, files, out, now, lat, ret, frame, filename,
                   filepath, cancelled>>

\* line 39: print("\nStopped by user.")
PrintUserStop ==
    /\ Runs("handler")
    /\ out' = Append(out, Msg(UserStopMsg, NoPath))
    /\ pc' = "release"
    /\ UNCHANGED <<cap, dirExists, files, now, lat, ret, frame, filename, filepath,
                   sigPending, cancelled, ended, exitStatus, h>>

\* line 41: cap.release()
Release ==
    /\ Runs("release")
    /\ cap' = "released"
    /\ h' = [h EXCEPT !.releases = h.releases + 1]
    /\ pc' = "destroy"
    /\ UNCHANGED <<dirExists, files, out, now, lat, ret, frame, filename, filepath,
                   sigPending, cancelled, ended, exitStatus>>

\* line 42: cv2.destroyAllWindows(), then the script ends
DestroyAllWindows ==
    /\ Runs("destroy")
    /\ pc' = "done"
    /\ ended' = "end"
    /\ exitStatus' = 0
    /\ UNCHANGED <<cap, dirExists, files, out, now, lat, ret, frame, filename,
                   filepath, sigPending, cancelled, h>>

Next ==
    \/ Open \/ Check \/ PrintOpenError \/ Exit \/ MakeSaveDir \/ PrintStart
    \/ ReadCall \/ ReadReturn \/ TestRet \/ PrintReadFailure \/ Break
    \/ MakeFilename \/ MakeFilepath \/ ImwriteCall \/ ImwriteReturn \/ PrintSaved
    \/ SleepCall \/ SleepReturn \/ Tick
    \/ SigInt \/ KeyboardInterrupt \/ PrintUserStop
    \/ Release \/ DestroyAllWindows

Spec == Init /\ [][Next]_vars

\* the runs in which the user never presses Ctrl+C
NextNoSignal ==
    \/ Open \/ Check \/ PrintOpenError \/ Exit \/ MakeSaveDir \/ PrintStart
    \/ ReadCall \/ ReadReturn \/ TestRet \/ PrintReadFailure \/ Break
    \/ MakeFilename \/ MakeFilepath \/ ImwriteCall \/ ImwriteReturn \/ PrintSaved
    \/ SleepCall \/ SleepReturn \/ Tick
    \/ Release \/ DestroyAllWindows

SpecNoSignal == Init /\ [][NextNoSignal]_vars

\* the runs in which Ctrl+C, if pressed, is pressed while the loop runs
SigIntInLoop == pc \in TryBlock /\ SigInt

NextLoopSignal == NextNoSignal \/ SigIntInLoop \/ KeyboardInterrupt \/ PrintUserStop

SpecLoopSignal == Init /\ [][NextLoopSignal]_vars

\* ------------------------------------------------------ reading the output
SavedMsgs == SelectSeq(out, LAMBDA m : m.text = SavedMsg)

TerminalMsgs ==
    SelectSeq(out, LAMBDA m : m.text \in {OpenErrorMsg, ReadFailMsg, UserStopMsg})

AllComplete == \A p \in DOMAIN files : files[p].complete

\* value of a decimal digit character, -1 for any other character
Code(c) ==
    IF \E k \in 0..9 : DigitChars[k + 1] = c
    THEN CHOOSE k \in 0..9 : DigitChars[k + 1] = c
    ELSE -1

RECURSIVE Number(_)
Number(cs) ==
    IF cs = <<>> THEN 0
    ELSE 10 * Number(SubSeq(cs, 1, Len(cs) - 1)) + Code(cs[Len(cs)])

\* a name of the shape YYYYMMDD_HHMMSS.jpg
WellFormedName(name) ==
    /\ Len(name) = 16
    /\ name[9] = "_"
    /\ name[16] = ".jpg"
    /\ \A i \in (1..15) \ {9} : Code(name[i]) >= 0

\* the wall-clock second a well-formed name spells
ParseTimestamp(name) ==
    [y |-> Number(SubSeq(name, 1, 4)), mo |-> Number(SubSeq(name, 5, 6)),
     d |-> Number(SubSeq(name, 7, 8)), h |-> Number(SubSeq(name, 10, 11)),
     mi |-> Number(SubSeq(name, 12, 13)), s |-> Number(SubSeq(name, 14, 15))]

InSaveDir(path) == Len(path) > 2 /\ path[1] = save_dir /\ path[2] = "/"

NameOf(path) == SubSeq(path, 3, Len(path))

\* a sorts before b, character by character
LexLess(a, b) ==
    \E i \in 1..Len(a) :
        /\ i <= Len(b)
        /\ \A j \in 1..(i - 1) : a[j] = b[j]
        /\ a[i] # b[i]
        /\ Code(a[i]) < Code(b[i])

\* why the run stops: a cancellation pre-empts whatever else has happened
StopCondition ==
    IF cancelled THEN "user"
    ELSE IF cap = "closed" THEN "open_failure"
    ELSE IF h.failedIter # 0 THEN "read_failure"
    ELSE "none"

\* positions of the running loop, from the call of cap.read() to the sleep
RunningPositions ==
    {"read", "read_in", "test_ret", "filename", "join", "imwrite", "imwrite_in",
     "print_saved", "sleep", "sleep_in"}

\* ------------------------------------------------------------------ claims

\* C1: every run that terminates (after stream-open failure, after a
\* frame-read failure, or after a user cancellation at any point) has
\* executed the release of the Stream Handle before the process ends.
C1_ReleasedOnEveryExit == pc = "done" => h.releases >= 1

\* C2: if the stream cannot be opened the process exits with a non-zero exit
\* status; every other terminating run exits normally, after the cleanup.
C2_ExitStatus ==
    pc = "done" =>
        IF cap = "closed" THEN exitStatus # 0
        ELSE exitStatus = 0 /\ h.releases >= 1

C4_OpenFailure ==
    cap = "closed" =>
        /\ h.reads = 0
        /\ h.saveCalls = 0
        /\ files = NoFiles
        /\ SavedMsgs = <<>>
        /\ h.mkdirs = 0
        /\ pc \in {"check", "print_err", "exit", "done"}
        /\ (pc = "exit" \/ ended = "SystemExit" => out = <<Msg(OpenErrorMsg, NoPath)>>)
        /\ (pc = "done" => ended \in {"SystemExit", "KeyboardInterrupt"})

C4_Witness ==
    /\ pc = "done"
    /\ cap = "closed"
    /\ ended = "SystemExit"
    /\ ~dirExists
    /\ out = <<Msg(OpenErrorMsg, NoPath)>>

\* C5: a cancellation signal received while the loop is running (during the
\* read, the save or the sleep) is caught: no read or save is started after
\* it, control goes to the except clause, the user-stop message is printed
\* once and last, and the Stream Handle is then released.
C5_CancelInLoop ==
    h.sigAt \in RunningPositions =>
        /\ h.reads = h.readsAtSig
        /\ h.saveCalls = h.savesAtSig
        /\ ended \in {"no", "end"}
        /\ (h.raisedAt # "none" => pc \in {"handler", "release", "destroy", "done"})
        /\ (pc \in {"release", "destroy", "done"} =>
                /\ Len(TerminalMsgs) = 1
                /\ out[Len(out)] = Msg(UserStopMsg, NoPath))
        /\ (pc \in {"destroy", "done"} => h.releases = 1 /\ cap = "released")
        /\ (pc \in {"handler", "release"} => h.releases = 0)

C5_Witness ==
    /\ h.sigAt = "sleep_in"
    /\ pc = "done"
    /\ h.releases = 1
    /\ Len(h.saved) >= 1

\* C6: after a user cancellation, and whenever the program is at the sleep,
\* every file of the output directory is a completely written frame.
C6_NoPartialFile ==
    (h.raisedAt # "none" \/ pc \in {"sleep", "sleep_in"}) => AllComplete

C6_Witness ==
    /\ h.sigAt = "imwrite_in"
    /\ h.raisedAt # "none"
    /\ DOMAIN files # {}

\* C7: every "Saved: <path>" message follows the completed write of that
\* path, the file is there with that iteration's frame, and its name spells,
\* as YYYYMMDD_HHMMSS.jpg, the wall-clock second read for that save.
C7_SavedMessage ==
    /\ Len(SavedMsgs) <= Len(h.saved)
    /\ \A i \in 1..Len(SavedMsgs) :
        LET path == SavedMsgs[i].path
            sv == h.saved[i]
        IN  /\ path = sv.path
            /\ path \in DOMAIN files
            /\ files[path].complete
            /\ files[path].frame = sv.frame
            /\ InSaveDir(path)
            /\ WellFormedName(NameOf(path))
            /\ ParseTimestamp(NameOf(path)) = sv.ts

C7_Witness ==
    /\ pc = "sleep"
    /\ Len(SavedMsgs) = 2
    /\ h.tsRead # now

\* C8: within one run the saved file names are strictly increasing in save
\* order, hence distinct, no save overwrites an earlier file, and the output
\* directory holds one file per save made.
C8_DistinctNames ==
    /\ \A i, j \in 1..Len(h.saved) :
        i < j => LexLess(h.saved[i].path, h.saved[j].path)
    /\ \A i \in 1..Len(h.saved) :
        /\ h.saved[i].path \in DOMAIN files
        /\ files[h.saved[i].path].frame = h.saved[i].frame
    /\ Cardinality(DOMAIN files) = h.saveCalls

C8_Witness ==
    /\ Len(h.saved) >= 2
    /\ h.saved[1].ts.d # h.saved[2].ts.d
    /\ Cardinality(DOMAIN files) = Len(h.saved)

\* C9: every terminating run has printed exactly one terminal message, of
\* the class of its stop condition.
C9_OneTerminalMessage ==
    pc = "done" =>
        /\ Len(TerminalMsgs) = 1
        /\ TerminalMsgs[1].text =
              IF StopCondition = "user" THEN UserStopMsg
              ELSE IF StopCondition = "open_failure" THEN OpenErrorMsg
              ELSE ReadFailMsg

\* C10: once the stream has opened and line 18 has run the output directory
\* exists, whether or not it existed at launch and without the launch
\* failing; every save is made after that, with the directory in place.
C10_DirectoryBeforeWrite ==
    /\ (pc \in {"imwrite", "imwrite_in"} => dirExists)
    /\ h.dirAtSave
    /\ (h.saveCalls > 0 => h.mkdirs = 1)
    /\ (h.mkdirs = 1 => dirExists /\ cap # "closed")
    /\ ended # "FileExistsError"

C10_Witness ==
    /\ ~h.dirAtLaunch
    /\ pc = "imwrite_in"
    /\ dirExists
    /\ filepath \in DOMAIN files

====
